---------------------------- MODULE Spec2Model ----------------------------
(***************************************************************************)
(* A model of package collection (golang-fp-utility): generic higher-order *)
(* functions over slices.  A caller owns one slice `source`, calls one     *)
(* library function at a time with callbacks drawn from small sets, and    *)
(* then drops the result.                                                  *)
(*                                                                         *)
(* Slices are modelled as headers pointing into a heap of backing arrays,  *)
(* so that a nil slice differs from an empty one and a result that shares  *)
(* the caller's array differs from a freshly allocated one.  Go indices    *)
(* are zero-based and TLA+ sequences one-based: element idx of a Go slice  *)
(* is element idx + 1 of the sequence that models it.                      *)
(*                                                                         *)
(* Every library function is an operator from the heap and the arguments   *)
(* to a record holding the heap after the call (h), the returned values    *)
(* and the log of callback invocations in the order they were made (calls).*)
(***************************************************************************)
EXTENDS Integers, Sequences, FiniteSets, TLC

VARIABLES
    heap,    \* backing arrays: array id -> sequence of elements
    source,  \* the caller's slice header
    pc,      \* "idle" (no call in progress), "done" (a call has returned) or
             \* "mutated" (the caller has since written to a container)
    op,      \* name of the library function that was called
    args,    \* the callbacks and scalars passed to it
    ret,     \* the values it returned
    calls,   \* the callback invocations it made, in order
    mutations \* the writes the caller has made to a container since the call returned

vars == <<heap, source, pc, op, args, ret, calls, mutations>>

---------------------------------------------------------------------------
(* Bounds of the model *)

MaxLen == 3
MaxElem == 3
MaxVal == 2
MaxOuter == 2
MaxInner == 2
MaxMutations == 2
MaxFuncs == 2

Elem == 1..MaxElem
Val == 1..MaxVal

SeqsUpTo(S, n) == UNION {[1..k -> S] : k \in 0..n}

---------------------------------------------------------------------------
(* Slices and the heap *)

NilSlice == [arr |-> "nil"]
SrcSlice == [arr |-> "src"]
NewSlice1 == [arr |-> "r1"]
NewSlice2 == [arr |-> "r2"]
NestedSlice == [arr |-> "nsrc"]

\* "src" is the caller's slice, "r1" and "r2" are the slices a call allocates,
\* "nsrc" is a slice of slices the caller passes to FlatMap, "msrc" a map the
\* caller passes and "mr1" the map a call allocates.  A map is a function from
\* its keys to their values; the empty map is the empty function <<>>.
EmptyHeap == [a \in {"src", "r1", "r2", "nsrc", "msrc", "mr1"} |-> <<>>]

\* The elements a slice header denotes: ranging over a nil slice visits nothing.
Elems(h, s) == IF s.arr = "nil" THEN <<>> ELSE h[s.arr]

IsNil(s) == s.arr = "nil"

---------------------------------------------------------------------------
(* Errors *)

NilError == [isNil |-> TRUE, msg |-> ""]

ErrorsNew(message) == [isNil |-> FALSE, msg |-> message]

\* errors.Wrap(err, message): nil for a nil err, else an error whose text is
\* message, a colon and a space, and the text of err.
Wrap(err, message) ==
    IF err.isNil THEN NilError
    ELSE [isNil |-> FALSE, msg |-> message \o ": " \o err.msg]

\* fmt.Sprintf("error mapping at index:'%v', error", idx)
SprintfIndex(idx) == "error mapping at index:'" \o ToString(idx) \o "', error"

---------------------------------------------------------------------------
(* Map *)

RECURSIVE MapLoop(_, _, _, _)
MapLoop(items, transform, i, st) ==
    IF i > Len(items) THEN st
    ELSE MapLoop(items, transform, i + 1,
                 [result |-> Append(st.result, transform[items[i]]),
                  calls  |-> Append(st.calls, items[i])])

\* Map with the result pre-sized to len(source) and then appended to.
MapPresized(h, src, transform) ==
    LET st == MapLoop(Elems(h, src), transform, 1,
                      [result |-> [i \in 1..Len(Elems(h, src)) |-> 0], calls |-> <<>>])
    IN [h |-> [h EXCEPT !["r1"] = st.result], result |-> NewSlice1, calls |-> st.calls]

Map(h, src, transform) ==
    LET st == MapLoop(Elems(h, src), transform, 1, [result |-> <<>>, calls |-> <<>>])
    IN [h |-> [h EXCEPT !["r1"] = st.result], result |-> NewSlice1, calls |-> st.calls]

---------------------------------------------------------------------------
(* ForEachWithError *)

\* The error values a callback may return: nil, or an error with a message.
Errors == {NilError, ErrorsNew("error"), ErrorsNew("fake error for 3")}

RECURSIVE ForEachWithErrorLoop(_, _, _, _)
ForEachWithErrorLoop(items, action, i, cs) ==
    IF i > Len(items) THEN [err |-> NilError, calls |-> cs]
    ELSE LET err == action[items[i]] IN
         IF ~err.isNil THEN [err |-> err, calls |-> Append(cs, items[i])]
         ELSE ForEachWithErrorLoop(items, action, i + 1, Append(cs, items[i]))

\* ForEachWithError that remembers a failure and keeps iterating.
RECURSIVE ForEachWithErrorKeepGoingLoop(_, _, _, _)
ForEachWithErrorKeepGoingLoop(items, action, i, st) ==
    IF i > Len(items) THEN st
    ELSE LET err == action[items[i]] IN
         ForEachWithErrorKeepGoingLoop(items, action, i + 1,
             [err |-> IF ~err.isNil THEN err ELSE st.err,
              calls |-> Append(st.calls, items[i])])

ForEachWithErrorKeepGoing(h, src, action) ==
    LET st == ForEachWithErrorKeepGoingLoop(Elems(h, src), action, 1,
                                            [err |-> NilError, calls |-> <<>>])
    IN [h |-> h, err |-> st.err, calls |-> st.calls]

ForEachWithError(h, src, action) ==
    LET st == ForEachWithErrorLoop(Elems(h, src), action, 1, <<>>)
    IN [h |-> h, err |-> st.err, calls |-> st.calls]

---------------------------------------------------------------------------
(* MapReturnWithError *)

\* What a mapping callback returns for one item: a value and a nil error, or
\* the zero value and an error.
Outcomes ==
    {[res |-> v, err |-> NilError] : v \in Val}
        \cup {[res |-> 0, err |-> e] : e \in Errors \ {NilError}}

\* idx is the Go index of the next item; st.result the slice built so far.
RECURSIVE MapReturnWithErrorLoop(_, _, _, _)
MapReturnWithErrorLoop(items, mappingFunc, idx, st) ==
    IF idx >= Len(items)
    THEN [failed |-> FALSE, result |-> st.result, err |-> NilError, calls |-> st.calls]
    ELSE LET item == items[idx + 1]
             r == mappingFunc[item]
             cs == Append(st.calls, item)
         IN IF ~r.err.isNil
            THEN [failed |-> TRUE, result |-> st.result,
                  err |-> Wrap(r.err, SprintfIndex(idx)), calls |-> cs]
            ELSE MapReturnWithErrorLoop(items, mappingFunc, idx + 1,
                     [result |-> Append(st.result, r.res), calls |-> cs])

\* MapReturnWithError with the result pre-sized to len(source) and then
\* appended to.
MapReturnWithErrorPresized(h, src, mappingFunc) ==
    LET st == MapReturnWithErrorLoop(Elems(h, src), mappingFunc, 0,
                  [result |-> [i \in 1..Len(Elems(h, src)) |-> 0], calls |-> <<>>])
    IN IF st.failed
       THEN [h |-> h, result |-> NilSlice, err |-> st.err, calls |-> st.calls]
       ELSE [h |-> [h EXCEPT !["r1"] = st.result], result |-> NewSlice1,
             err |-> NilError, calls |-> st.calls]

\* MapReturnWithError returning what it has built so far beside the error.
MapReturnWithErrorPartial(h, src, mappingFunc) ==
    LET st == MapReturnWithErrorLoop(Elems(h, src), mappingFunc, 0,
                                     [result |-> <<>>, calls |-> <<>>])
    IN [h |-> [h EXCEPT !["r1"] = st.result], result |-> NewSlice1,
        err |-> st.err, calls |-> st.calls]

MapReturnWithError(h, src, mappingFunc) ==
    LET st == MapReturnWithErrorLoop(Elems(h, src), mappingFunc, 0,
                                     [result |-> <<>>, calls |-> <<>>])
    IN IF st.failed
       THEN [h |-> h, result |-> NilSlice, err |-> st.err, calls |-> st.calls]
       ELSE [h |-> [h EXCEPT !["r1"] = st.result], result |-> NewSlice1,
             err |-> NilError, calls |-> st.calls]

---------------------------------------------------------------------------
(* Reduce *)

\* The reducing callbacks the caller may pass, over integers: addition,
\* subtraction, appending the item as a decimal digit (string concatenation,
\* with every element a one-digit string and the empty string read as 0), and
\* keeping the accumulator.
ReduceFuncs == {"add", "sub", "concat", "keep"}

ApplyReduceFunc(reduceFunc, acc, item) ==
    CASE reduceFunc = "add" -> acc + item
      [] reduceFunc = "sub" -> acc - item
      [] reduceFunc = "concat" -> acc * 10 + item
      [] reduceFunc = "keep" -> acc

RECURSIVE ReduceLoop(_, _, _, _)
ReduceLoop(items, reduceFunc, i, st) ==
    IF i > Len(items) THEN st
    ELSE ReduceLoop(items, reduceFunc, i + 1,
             [acc |-> ApplyReduceFunc(reduceFunc, st.acc, items[i]),
              calls |-> Append(st.calls, <<st.acc, items[i]>>)])

\* Reduce visiting the elements from the last to the first.
RECURSIVE ReduceBackwardsLoop(_, _, _, _)
ReduceBackwardsLoop(items, reduceFunc, i, st) ==
    IF i < 1 THEN st
    ELSE ReduceBackwardsLoop(items, reduceFunc, i - 1,
             [acc |-> ApplyReduceFunc(reduceFunc, st.acc, items[i]),
              calls |-> Append(st.calls, <<st.acc, items[i]>>)])

ReduceBackwards(h, src, reduceFunc, initialValue) ==
    LET st == ReduceBackwardsLoop(Elems(h, src), reduceFunc, Len(Elems(h, src)),
                                  [acc |-> initialValue, calls |-> <<>>])
    IN [h |-> h, acc |-> st.acc, calls |-> st.calls]

Reduce(h, src, reduceFunc, initialValue) ==
    LET st == ReduceLoop(Elems(h, src), reduceFunc, 1,
                         [acc |-> initialValue, calls |-> <<>>])
    IN [h |-> h, acc |-> st.acc, calls |-> st.calls]

---------------------------------------------------------------------------
(* Filter *)

RECURSIVE FilterLoop(_, _, _, _)
FilterLoop(items, filterFunc, i, st) ==
    IF i > Len(items) THEN st
    ELSE FilterLoop(items, filterFunc, i + 1,
             [result |-> IF filterFunc[items[i]] THEN Append(st.result, items[i])
                         ELSE st.result,
              calls |-> Append(st.calls, items[i])])

\* Filter that stops at the first rejected element.
RECURSIVE FilterPrefixLoop(_, _, _, _)
FilterPrefixLoop(items, filterFunc, i, st) ==
    IF i > Len(items) THEN st
    ELSE IF filterFunc[items[i]]
         THEN FilterPrefixLoop(items, filterFunc, i + 1,
                  [result |-> Append(st.result, items[i]),
                   calls |-> Append(st.calls, items[i])])
         ELSE [result |-> st.result, calls |-> Append(st.calls, items[i])]

FilterPrefix(h, src, filterFunc) ==
    LET st == FilterPrefixLoop(Elems(h, src), filterFunc, 1,
                               [result |-> <<>>, calls |-> <<>>])
    IN [h |-> [h EXCEPT !["r1"] = st.result], result |-> NewSlice1, calls |-> st.calls]

Filter(h, src, filterFunc) ==
    LET st == FilterLoop(Elems(h, src), filterFunc, 1, [result |-> <<>>, calls |-> <<>>])
    IN [h |-> [h EXCEPT !["r1"] = st.result], result |-> NewSlice1, calls |-> st.calls]

---------------------------------------------------------------------------
(* Max, Min *)

\* The zero value of the element type (int)
Zero == 0

\* The elements of slice[1:], given the elements of slice
Tail1(items) == SubSeq(items, 2, Len(items))

RECURSIVE MaxLoop(_, _, _)
MaxLoop(rest, i, max) ==
    IF i > Len(rest) THEN max
    ELSE MaxLoop(rest, i + 1, IF rest[i] > max THEN rest[i] ELSE max)

RECURSIVE MinLoop(_, _, _)
MinLoop(rest, i, min) ==
    IF i > Len(rest) THEN min
    ELSE MinLoop(rest, i + 1, IF rest[i] < min THEN rest[i] ELSE min)

\* Max starting from the zero value instead of the first element, and so
\* never reporting an empty slice.
MaxFromZero(h, slice) ==
    [h |-> h, max |-> MaxLoop(Elems(h, slice), 1, Zero), found |-> TRUE]

Max(h, slice) ==
    LET items == Elems(h, slice) IN
    IF Len(items) = 0 THEN [h |-> h, max |-> Zero, found |-> FALSE]
    ELSE [h |-> h, max |-> MaxLoop(Tail1(items), 1, items[1]), found |-> TRUE]

Min(h, slice) ==
    LET items == Elems(h, slice) IN
    IF Len(items) = 0 THEN [h |-> h, min |-> Zero, found |-> FALSE]
    ELSE [h |-> h, min |-> MinLoop(Tail1(items), 1, items[1]), found |-> TRUE]

---------------------------------------------------------------------------
(* MaxBy, MinBy *)

\* st.max is the best element so far, st.maxValue its key.
RECURSIVE MaxByLoop(_, _, _, _)
MaxByLoop(rest, getter, i, st) ==
    IF i > Len(rest) THEN st
    ELSE LET v == rest[i]
             value == getter[v]
         IN MaxByLoop(rest, getter, i + 1,
                [max |-> IF value > st.maxValue THEN v ELSE st.max,
                 maxValue |-> IF value > st.maxValue THEN value ELSE st.maxValue,
                 calls |-> Append(st.calls, v)])

\* The loop of MaxBy replacing the best element on an equal key as well.
RECURSIVE MaxByLastWinsLoop(_, _, _, _)
MaxByLastWinsLoop(rest, getter, i, st) ==
    IF i > Len(rest) THEN st
    ELSE LET v == rest[i]
             value == getter[v]
         IN MaxByLastWinsLoop(rest, getter, i + 1,
                [max |-> IF value >= st.maxValue THEN v ELSE st.max,
                 maxValue |-> IF value >= st.maxValue THEN value ELSE st.maxValue,
                 calls |-> Append(st.calls, v)])

MaxByLastWins(h, slice, getter) ==
    LET items == Elems(h, slice) IN
    IF Len(items) = 0 THEN [h |-> h, max |-> Zero, found |-> FALSE, calls |-> <<>>]
    ELSE LET st == MaxByLastWinsLoop(Tail1(items), getter, 1,
                       [max |-> items[1], maxValue |-> getter[items[1]],
                        calls |-> <<items[1]>>])
         IN [h |-> h, max |-> st.max, found |-> TRUE, calls |-> st.calls]

MaxBy(h, slice, getter) ==
    LET items == Elems(h, slice) IN
    IF Len(items) = 0 THEN [h |-> h, max |-> Zero, found |-> FALSE, calls |-> <<>>]
    ELSE LET st == MaxByLoop(Tail1(items), getter, 1,
                       [max |-> items[1], maxValue |-> getter[items[1]],
                        calls |-> <<items[1]>>])
         IN [h |-> h, max |-> st.max, found |-> TRUE, calls |-> st.calls]

RECURSIVE MinByLoop(_, _, _, _)
MinByLoop(rest, getter, i, st) ==
    IF i > Len(rest) THEN st
    ELSE LET v == rest[i]
             value == getter[v]
         IN MinByLoop(rest, getter, i + 1,
                [min |-> IF value < st.minValue THEN v ELSE st.min,
                 minValue |-> IF value < st.minValue THEN value ELSE st.minValue,
                 calls |-> Append(st.calls, v)])

MinBy(h, slice, getter) ==
    LET items == Elems(h, slice) IN
    IF Len(items) = 0 THEN [h |-> h, min |-> Zero, found |-> FALSE, calls |-> <<>>]
    ELSE LET st == MinByLoop(Tail1(items), getter, 1,
                       [min |-> items[1], minValue |-> getter[items[1]],
                        calls |-> <<items[1]>>])
         IN [h |-> h, min |-> st.min, found |-> TRUE, calls |-> st.calls]

---------------------------------------------------------------------------
(* Partition *)

RECURSIVE PartitionLoop(_, _, _, _)
PartitionLoop(items, predicate, i, st) ==
    IF i > Len(items) THEN st
    ELSE LET v == items[i] IN
         PartitionLoop(items, predicate, i + 1,
             [trueSlice |-> IF predicate[v] THEN Append(st.trueSlice, v)
                            ELSE st.trueSlice,
              falseSlice |-> IF predicate[v] THEN st.falseSlice
                             ELSE Append(st.falseSlice, v),
              calls |-> Append(st.calls, v)])

\* The loop of Partition without its else: every element goes to falseSlice.
RECURSIVE PartitionNoElseLoop(_, _, _, _)
PartitionNoElseLoop(items, predicate, i, st) ==
    IF i > Len(items) THEN st
    ELSE LET v == items[i] IN
         PartitionNoElseLoop(items, predicate, i + 1,
             [trueSlice |-> IF predicate[v] THEN Append(st.trueSlice, v)
                            ELSE st.trueSlice,
              falseSlice |-> Append(st.falseSlice, v),
              calls |-> Append(st.calls, v)])

PartitionNoElse(h, slice, predicate) ==
    LET st == PartitionNoElseLoop(Elems(h, slice), predicate, 1,
                  [trueSlice |-> <<>>, falseSlice |-> <<>>, calls |-> <<>>])
    IN [h |-> [h EXCEPT !["r1"] = st.trueSlice, !["r2"] = st.falseSlice],
        trueSlice |-> NewSlice1, falseSlice |-> NewSlice2, calls |-> st.calls]

Partition(h, slice, predicate) ==
    LET st == PartitionLoop(Elems(h, slice), predicate, 1,
                  [trueSlice |-> <<>>, falseSlice |-> <<>>, calls |-> <<>>])
    IN [h |-> [h EXCEPT !["r1"] = st.trueSlice, !["r2"] = st.falseSlice],
        trueSlice |-> NewSlice1, falseSlice |-> NewSlice2, calls |-> st.calls]

---------------------------------------------------------------------------
(* Sort *)

\* The less callbacks the caller may pass.  Each closes over the list being
\* sorted and compares the elements currently at two positions of it: by the
\* element, ascending or descending; by a key of the element; or by the key
\* and, on equal keys, by the element (a two-key comparison).
LessFuncs ==
    {[kind |-> "asc"], [kind |-> "desc"]}
        \cup {[kind |-> k, key |-> f] : k \in {"byKey", "byKeyThenElem"}, f \in [Elem -> Val]}

\* The callback's order on two elements
LessElem(less, x, y) ==
    CASE less.kind = "asc" -> x < y
      [] less.kind = "desc" -> x > y
      [] less.kind = "byKey" -> less.key[x] < less.key[y]
      [] less.kind = "byKeyThenElem" ->
            \/ less.key[x] < less.key[y]
            \/ less.key[x] = less.key[y] /\ x < y

\* less(i, j) for Go indices i and j, read from the list as it is now
Less(less, data, i, j) == LessElem(less, data[i + 1], data[j + 1])

\* reflect.Swapper: exchange the elements at Go indices i and j
Swap(data, i, j) == [data EXCEPT ![i + 1] = data[j + 1], ![j + 1] = data[i + 1]]

\* sort.Slice on at most 12 elements is an insertion sort over [a, b):
\*   for i := a + 1; i < b; i++ {
\*       for j := i; j > a && less(j, j-1); j-- { swap(j, j-1) } }
RECURSIVE InsertionSortInner(_, _, _, _)
InsertionSortInner(st, less, a, j) ==
    IF j > a
    THEN LET cs == Append(st.calls, <<j, j - 1>>) IN
         IF Less(less, st.data, j, j - 1)
         THEN InsertionSortInner([data |-> Swap(st.data, j, j - 1), calls |-> cs],
                                 less, a, j - 1)
         ELSE [data |-> st.data, calls |-> cs]
    ELSE st

RECURSIVE InsertionSort(_, _, _, _, _)
InsertionSort(st, less, a, b, i) ==
    IF i < b THEN InsertionSort(InsertionSortInner(st, less, a, i), less, a, b, i + 1)
    ELSE st

SortSlice(data, less) ==
    InsertionSort([data |-> data, calls |-> <<>>], less, 0, Len(data), 1)

\* Sort working on a copy of the list and returning the copy.
SortCopy(h, list, less) ==
    LET st == SortSlice(Elems(h, list), less)
    IN [h |-> [h EXCEPT !["r1"] = st.data], result |-> NewSlice1, calls |-> st.calls]

Sort(h, list, less) ==
    LET st == SortSlice(Elems(h, list), less)
    IN [h |-> IF IsNil(list) THEN h ELSE [h EXCEPT ![list.arr] = st.data],
        result |-> list, calls |-> st.calls]

---------------------------------------------------------------------------
(* Distinct, DistinctFunc *)

\* The comparison callbacks the caller may pass to DistinctFunc: every
\* equivalence on the elements (given by a classification of the elements),
\* and the function that reports no two elements equal.
CompareFuncs ==
    {[pair \in Elem \X Elem |-> class[pair[1]] = class[pair[2]]] : class \in [Elem -> Elem]}
        \cup {[pair \in Elem \X Elem |-> FALSE]}

\* st.seen is the set of keys of the map seen that hold true.
RECURSIVE DistinctLoop(_, _, _)
DistinctLoop(items, i, st) ==
    IF i > Len(items) THEN st
    ELSE LET item == items[i] IN
         DistinctLoop(items, i + 1,
             IF item \notin st.seen
             THEN [seen |-> st.seen \cup {item}, unique |-> Append(st.unique, item)]
             ELSE st)

\* Distinct comparing each element with the one before it only.
DistinctAdjacent(h, slice) ==
    LET items == Elems(h, slice)
        keep == {i \in 1..Len(items) : i = 1 \/ items[i] # items[i - 1]}
        Kept(i) == i \in keep
        Index == [i \in 1..Len(items) |-> i]
        idxs == SelectSeq(Index, Kept)
    IN [h |-> [h EXCEPT !["r1"] = [k \in 1..Len(idxs) |-> items[idxs[k]]]],
        unique |-> NewSlice1]

Distinct(h, slice) ==
    LET st == DistinctLoop(Elems(h, slice), 1, [seen |-> {}, unique |-> <<>>])
    IN [h |-> [h EXCEPT !["r1"] = st.unique], unique |-> NewSlice1]

\* DistinctFunc keeping an element when compareFunc reports it equal to none
\* of the elements kept so far.
RECURSIVE DistinctFuncByCompareLoop(_, _, _, _)
DistinctFuncByCompareLoop(items, compareFunc, i, st) ==
    IF i > Len(items) THEN st
    ELSE LET item == items[i]
             met == {k \in 1..Len(st.unique) : compareFunc[<<st.unique[k], item>>]}
         IN DistinctFuncByCompareLoop(items, compareFunc, i + 1,
                [unique |-> IF met = {} THEN Append(st.unique, item) ELSE st.unique,
                 calls |-> st.calls \o [k \in 1..Len(st.unique) |-> <<st.unique[k], item>>]])

DistinctFuncByCompare(h, slice, compareFunc) ==
    LET st == DistinctFuncByCompareLoop(Elems(h, slice), compareFunc, 1,
                                        [unique |-> <<>>, calls |-> <<>>])
    IN [h |-> [h EXCEPT !["r1"] = st.unique], unique |-> NewSlice1, calls |-> st.calls]

\* The body is that of Distinct: compareFunc is never read.
DistinctFunc(h, slice, compareFunc) ==
    LET st == DistinctLoop(Elems(h, slice), 1, [seen |-> {}, unique |-> <<>>])
    IN [h |-> [h EXCEPT !["r1"] = st.unique], unique |-> NewSlice1, calls |-> <<>>]

---------------------------------------------------------------------------
(* FlatMap *)

\* The inner slices of a [][]T1: nil, or a slice of up to MaxInner elements.
InnerSlices ==
    {[isNil |-> TRUE, elems |-> <<>>]}
        \cup {[isNil |-> FALSE, elems |-> s] : s \in SeqsUpTo(Val, MaxInner)}

RECURSIVE FlatMapLoop(_, _, _)
FlatMapLoop(items, i, result) ==
    IF i > Len(items) THEN result
    ELSE FlatMapLoop(items, i + 1, result \o items[i].elems)

\* FlatMap assigning each inner slice to the result instead of appending it.
FlatMapLast(h, src) ==
    LET items == Elems(h, src)
    IN [h |-> [h EXCEPT !["r1"] = IF Len(items) = 0 THEN <<>>
                                   ELSE items[Len(items)].elems],
        result |-> NewSlice1]

FlatMap(h, src) ==
    [h |-> [h EXCEPT !["r1"] = FlatMapLoop(Elems(h, src), 1, <<>>)],
     result |-> NewSlice1]

---------------------------------------------------------------------------
(* ForEach *)

\* A callback of ForEach is given by the value it assigns to its own
\* parameter (item = item * 2).  The parameter is a copy of the element, so
\* the assignment is lost when the callback returns.
RECURSIVE ForEachLoop(_, _, _, _)
ForEachLoop(items, action, i, cs) ==
    IF i > Len(items) THEN cs
    ELSE LET item == items[i]
             assigned == action[item]
         IN ForEachLoop(items, action, i + 1, Append(cs, item))

\* ForEach handing the callback the element itself instead of a copy.
ForEachByReference(h, src, action) ==
    LET items == Elems(h, src)
    IN [h |-> IF IsNil(src) THEN h
              ELSE [h EXCEPT ![src.arr] = [i \in 1..Len(items) |-> action[items[i]]]],
        calls |-> items]

ForEach(h, src, action) ==
    [h |-> h, calls |-> ForEachLoop(Elems(h, src), action, 1, <<>>)]

---------------------------------------------------------------------------
(* Exists *)

RECURSIVE ExistsLoop(_, _, _, _)
ExistsLoop(items, condition, i, cs) ==
    IF i > Len(items) THEN [found |-> FALSE, calls |-> cs]
    ELSE IF condition[items[i]]
         THEN [found |-> TRUE, calls |-> Append(cs, items[i])]
         ELSE ExistsLoop(items, condition, i + 1, Append(cs, items[i]))

\* Exists remembering a match and visiting the remaining elements all the same.
ExistsVisitAll(h, collection, condition) ==
    LET items == Elems(h, collection)
    IN [h |-> h,
        found |-> \E i \in 1..Len(items) : condition[items[i]],
        calls |-> items]

Exists(h, collection, condition) ==
    LET st == ExistsLoop(Elems(h, collection), condition, 1, <<>>)
    IN [h |-> h, found |-> st.found, calls |-> st.calls]

---------------------------------------------------------------------------
(* Count *)

RECURSIVE CountLoop(_, _, _, _)
CountLoop(items, predicate, i, st) ==
    IF i > Len(items) THEN st
    ELSE CountLoop(items, predicate, i + 1,
             [count |-> IF predicate[items[i]] THEN st.count + 1 ELSE st.count,
              calls |-> Append(st.calls, items[i])])

\* Count counting the values that satisfy the predicate instead of the
\* positions that hold them.
CountValues(h, slice, predicate) ==
    LET items == Elems(h, slice)
    IN [h |-> h,
        count |-> Cardinality({items[i] : i \in {k \in 1..Len(items) : predicate[items[k]]}}),
        calls |-> items]

Count(h, slice, predicate) ==
    LET st == CountLoop(Elems(h, slice), predicate, 1, [count |-> 0, calls |-> <<>>])
    IN [h |-> h, count |-> st.count, calls |-> st.calls]

---------------------------------------------------------------------------
(* Maps *)

NilMap == [arr |-> "nil"]
SrcMap == [arr |-> "msrc"]
NewMap1 == [arr |-> "mr1"]

\* The maps a caller may pass: keys among the elements, values among Val.
Maps == UNION {[K -> Val] : K \in SUBSET Elem}

\* The key/value pairs a map header denotes: a nil map has none.
Entries(h, m) == IF m.arr = "nil" THEN <<>> ELSE h[m.arr]

\* m[key] = value
Put(m, key, value) ==
    [k \in DOMAIN m \cup {key} |-> IF k = key THEN value ELSE m[k]]

\* delete(m, key)
Delete(m, key) == [k \in DOMAIN m \ {key} |-> m[k]]

\* The orders in which a range over a map may visit its keys: Go leaves the
\* order unspecified, so every enumeration of the keys is possible.
KeyOrders(m) ==
    {order \in [1..Cardinality(DOMAIN m) -> DOMAIN m] :
        \A i, j \in 1..Cardinality(DOMAIN m) : i # j => order[i] # order[j]}

---------------------------------------------------------------------------
(* FilterMap *)

\* The filtering callbacks the caller may pass: a test of the key (key%2 == 0)
\* or a test of the value (len(value) <= 1).
FilteringFuncs ==
    {[kv \in Elem \X Val |-> onKey[kv[1]]] : onKey \in [Elem -> BOOLEAN]}
        \cup {[kv \in Elem \X Val |-> onValue[kv[2]]] : onValue \in [Val -> BOOLEAN]}

\* order is the order in which the range visits the keys of the map.
RECURSIVE FilterMapLoop(_, _, _, _, _)
FilterMapLoop(m, filteringFunc, order, i, st) ==
    IF i > Len(order) THEN st
    ELSE LET key == order[i]
             value == m[key]
         IN FilterMapLoop(m, filteringFunc, order, i + 1,
                [result |-> IF filteringFunc[<<key, value>>]
                            THEN Put(st.result, key, value) ELSE st.result,
                 calls |-> Append(st.calls, <<key, value>>)])

\* FilterMap keeping the pairs the callback rejects.
FilterMapNegated(h, src, filteringFunc, order) ==
    LET m == Entries(h, src)
    IN [h |-> [h EXCEPT !["mr1"] =
                  [k \in {x \in DOMAIN m : ~filteringFunc[<<x, m[x]>>]} |-> m[k]]],
        result |-> NewMap1,
        calls |-> [i \in 1..Len(order) |-> <<order[i], m[order[i]]>>]]

FilterMap(h, src, filteringFunc, order) ==
    LET st == FilterMapLoop(Entries(h, src), filteringFunc, order, 1,
                            [result |-> <<>>, calls |-> <<>>])
    IN [h |-> [h EXCEPT !["mr1"] = st.result], result |-> NewMap1, calls |-> st.calls]

---------------------------------------------------------------------------
(* CloneMap, CloneList *)

RECURSIVE CloneMapLoop(_, _, _, _)
CloneMapLoop(m, order, i, clone) ==
    IF i > Len(order) THEN clone
    ELSE CloneMapLoop(m, order, i + 1, Put(clone, order[i], m[order[i]]))

\* CloneMap returning its argument.
CloneMapAlias(h, src, order) == [h |-> h, clone |-> src]

\* CloneMap returning a nil map for a nil map.
CloneMapNilForNil(h, src, order) ==
    IF src.arr = "nil" THEN [h |-> h, clone |-> NilMap]
    ELSE [h |-> [h EXCEPT !["mr1"] = CloneMapLoop(Entries(h, src), order, 1, <<>>)],
          clone |-> NewMap1]

CloneMap(h, src, order) ==
    [h |-> [h EXCEPT !["mr1"] = CloneMapLoop(Entries(h, src), order, 1, <<>>)],
     clone |-> NewMap1]

\* make([]T, n): n zero values
Make(n) == [i \in 1..n |-> Zero]

\* copy(dst, src): the first min(len(dst), len(src)) elements of dst are
\* replaced by those of src
Copy(dst, src) ==
    [i \in 1..Len(dst) |-> IF i <= Len(src) THEN src[i] ELSE dst[i]]

\* CloneList returning its argument.
CloneListAlias(h, src) == [h |-> h, clone |-> src]

CloneList(h, src) ==
    LET items == Elems(h, src)
    IN [h |-> [h EXCEPT !["r1"] = Copy(Make(Len(items)), items)], clone |-> NewSlice1]

---------------------------------------------------------------------------
(* Compose, Pipe, Chain *)

\* The one-argument functions the caller may pass
Funcs == [Val -> Val]

\* The function literal both Compose and Pipe return captures f and g.
\* Compose takes (f, g), Pipe takes (g, f).
Compose(f, g) == [f |-> f, g |-> g]

\* Pipe capturing its arguments in the order of Compose's.
PipeSwapped(g, f) == [f |-> g, g |-> f]

Pipe(g, f) == [f |-> f, g |-> g]

\* A call of the returned function: return f(g(x)).  The argument g(x) is
\* evaluated before f is called.
ApplyComposed(composed, x) ==
    LET inner == composed.g[x]
        outer == composed.f[inner]
    IN [value |-> outer, calls |-> << <<"g", x>>, <<"f", inner>> >>]

\* calls logs the Go index of each function applied and the value it was given.
RECURSIVE ChainLoop(_, _, _)
ChainLoop(functions, i, st) ==
    IF i > Len(functions) THEN st
    ELSE ChainLoop(functions, i + 1,
             [value |-> functions[i][st.value],
              calls |-> Append(st.calls, <<i - 1, st.value>>)])

\* Chain applying every function to the value it was called with.
RECURSIVE ChainUnthreadedLoop(_, _, _, _)
ChainUnthreadedLoop(value, functions, i, st) ==
    IF i > Len(functions) THEN st
    ELSE ChainUnthreadedLoop(value, functions, i + 1,
             [value |-> functions[i][value],
              calls |-> Append(st.calls, <<i - 1, value>>)])

ChainUnthreaded(value, functions) ==
    ChainUnthreadedLoop(value, functions, 1, [value |-> value, calls |-> <<>>])

Chain(value, functions) ==
    ChainLoop(functions, 1, [value |-> value, calls |-> <<>>])

---------------------------------------------------------------------------
(* The caller *)

NoArgs == [none |-> TRUE]
NoRet == [none |-> TRUE]

Init ==
    /\ \E s \in SeqsUpTo(Elem, MaxLen) :
          \E hdr \in {SrcSlice, NilSlice} :
             /\ (hdr = NilSlice => s = <<>>)
             /\ heap = [EmptyHeap EXCEPT !["src"] = s]
             /\ source = hdr
    /\ pc = "idle"
    /\ mutations = 0
    /\ op = "none"
    /\ args = NoArgs
    /\ ret = NoRet
    /\ calls = <<>>

CallMap ==
    /\ pc = "idle"
    /\ \E transform \in [Elem -> Val] :
          LET o == Map(heap, source, transform) IN
          /\ heap' = o.h
          /\ ret' = [result |-> o.result]
          /\ calls' = o.calls
          /\ args' = [items |-> Elems(heap, source), transform |-> transform]
    /\ op' = "Map"
    /\ pc' = "done"
    /\ mutations' = 0
    /\ UNCHANGED source

CallForEachWithError ==
    /\ pc = "idle"
    /\ \E action \in [Elem -> Errors] :
          LET o == ForEachWithError(heap, source, action) IN
          /\ heap' = o.h
          /\ ret' = [err |-> o.err]
          /\ calls' = o.calls
          /\ args' = [items |-> Elems(heap, source), action |-> action]
    /\ op' = "ForEachWithError"
    /\ pc' = "done"
    /\ mutations' = 0
    /\ UNCHANGED source

CallMapReturnWithError ==
    /\ pc = "idle"
    /\ \E mappingFunc \in [Elem -> Outcomes] :
          LET o == MapReturnWithError(heap, source, mappingFunc) IN
          /\ heap' = o.h
          /\ ret' = [result |-> o.result, err |-> o.err]
          /\ calls' = o.calls
          /\ args' = [items |-> Elems(heap, source), mappingFunc |-> mappingFunc]
    /\ op' = "MapReturnWithError"
    /\ pc' = "done"
    /\ mutations' = 0
    /\ UNCHANGED source

CallReduce ==
    /\ pc = "idle"
    /\ \E reduceFunc \in ReduceFuncs, initialValue \in 0..1 :
          LET o == Reduce(heap, source, reduceFunc, initialValue) IN
          /\ heap' = o.h
          /\ ret' = [acc |-> o.acc]
          /\ calls' = o.calls
          /\ args' = [items |-> Elems(heap, source), reduceFunc |-> reduceFunc,
                      initialValue |-> initialValue]
    /\ op' = "Reduce"
    /\ pc' = "done"
    /\ mutations' = 0
    /\ UNCHANGED source

CallFilter ==
    /\ pc = "idle"
    /\ \E filterFunc \in [Elem -> BOOLEAN] :
          LET o == Filter(heap, source, filterFunc) IN
          /\ heap' = o.h
          /\ ret' = [result |-> o.result]
          /\ calls' = o.calls
          /\ args' = [items |-> Elems(heap, source), filterFunc |-> filterFunc]
    /\ op' = "Filter"
    /\ pc' = "done"
    /\ mutations' = 0
    /\ UNCHANGED source

CallMax ==
    /\ pc = "idle"
    /\ LET o == Max(heap, source) IN
          /\ heap' = o.h
          /\ ret' = [max |-> o.max, found |-> o.found]
    /\ calls' = <<>>
    /\ args' = [items |-> Elems(heap, source)]
    /\ op' = "Max"
    /\ pc' = "done"
    /\ mutations' = 0
    /\ UNCHANGED source

CallMin ==
    /\ pc = "idle"
    /\ LET o == Min(heap, source) IN
          /\ heap' = o.h
          /\ ret' = [min |-> o.min, found |-> o.found]
    /\ calls' = <<>>
    /\ args' = [items |-> Elems(heap, source)]
    /\ op' = "Min"
    /\ pc' = "done"
    /\ mutations' = 0
    /\ UNCHANGED source

CallMaxBy ==
    /\ pc = "idle"
    /\ \E getter \in [Elem -> Val] :
          LET o == MaxBy(heap, source, getter) IN
          /\ heap' = o.h
          /\ ret' = [max |-> o.max, found |-> o.found]
          /\ calls' = o.calls
          /\ args' = [items |-> Elems(heap, source), getter |-> getter]
    /\ op' = "MaxBy"
    /\ pc' = "done"
    /\ mutations' = 0
    /\ UNCHANGED source

CallMinBy ==
    /\ pc = "idle"
    /\ \E getter \in [Elem -> Val] :
          LET o == MinBy(heap, source, getter) IN
          /\ heap' = o.h
          /\ ret' = [min |-> o.min, found |-> o.found]
          /\ calls' = o.calls
          /\ args' = [items |-> Elems(heap, source), getter |-> getter]
    /\ op' = "MinBy"
    /\ pc' = "done"
    /\ mutations' = 0
    /\ UNCHANGED source

CallPartition ==
    /\ pc = "idle"
    /\ \E predicate \in [Elem -> BOOLEAN] :
          LET o == Partition(heap, source, predicate) IN
          /\ heap' = o.h
          /\ ret' = [trueSlice |-> o.trueSlice, falseSlice |-> o.falseSlice]
          /\ calls' = o.calls
          /\ args' = [items |-> Elems(heap, source), predicate |-> predicate]
    /\ op' = "Partition"
    /\ pc' = "done"
    /\ mutations' = 0
    /\ UNCHANGED source

CallSort ==
    /\ pc = "idle"
    /\ \E less \in LessFuncs :
          LET o == Sort(heap, source, less) IN
          /\ heap' = o.h
          /\ ret' = [result |-> o.result]
          /\ calls' = o.calls
          /\ args' = [items |-> Elems(heap, source), less |-> less]
    /\ op' = "Sort"
    /\ pc' = "done"
    /\ mutations' = 0
    /\ UNCHANGED source

CallDistinctFunc ==
    /\ pc = "idle"
    /\ \E compareFunc \in CompareFuncs :
          LET o == DistinctFunc(heap, source, compareFunc) IN
          /\ heap' = o.h
          /\ ret' = [unique |-> o.unique]
          /\ calls' = o.calls
          /\ args' = [items |-> Elems(heap, source), compareFunc |-> compareFunc]
    /\ op' = "DistinctFunc"
    /\ pc' = "done"
    /\ mutations' = 0
    /\ UNCHANGED source

CallDistinct ==
    /\ pc = "idle"
    /\ LET o == Distinct(heap, source) IN
          /\ heap' = o.h
          /\ ret' = [unique |-> o.unique]
    /\ calls' = <<>>
    /\ args' = [items |-> Elems(heap, source)]
    /\ op' = "Distinct"
    /\ pc' = "done"
    /\ mutations' = 0
    /\ UNCHANGED source

\* Calls that take no slice of elements are made by the caller that holds
\* none; the container they take is built for the call.
HoldsNoSlice == source = NilSlice

CallFlatMap ==
    /\ pc = "idle"
    /\ HoldsNoSlice
    /\ \E nested \in SeqsUpTo(InnerSlices, MaxOuter), hdr \in {NestedSlice, NilSlice} :
          /\ hdr = NilSlice => nested = <<>>
          /\ LET o == FlatMap([heap EXCEPT !["nsrc"] = nested], hdr) IN
             /\ heap' = o.h
             /\ ret' = [result |-> o.result]
             /\ args' = [source |-> hdr, items |-> nested]
    /\ calls' = <<>>
    /\ op' = "FlatMap"
    /\ pc' = "done"
    /\ mutations' = 0
    /\ UNCHANGED source

CallForEach ==
    /\ pc = "idle"
    /\ \E action \in [Elem -> Elem] :
          LET o == ForEach(heap, source, action) IN
          /\ heap' = o.h
          /\ calls' = o.calls
          /\ args' = [items |-> Elems(heap, source), action |-> action]
    /\ ret' = NoRet
    /\ op' = "ForEach"
    /\ pc' = "done"
    /\ mutations' = 0
    /\ UNCHANGED source

CallExists ==
    /\ pc = "idle"
    /\ \E condition \in [Elem -> BOOLEAN] :
          LET o == Exists(heap, source, condition) IN
          /\ heap' = o.h
          /\ ret' = [found |-> o.found]
          /\ calls' = o.calls
          /\ args' = [items |-> Elems(heap, source), condition |-> condition]
    /\ op' = "Exists"
    /\ pc' = "done"
    /\ mutations' = 0
    /\ UNCHANGED source

CallCount ==
    /\ pc = "idle"
    /\ \E predicate \in [Elem -> BOOLEAN] :
          LET o == Count(heap, source, predicate) IN
          /\ heap' = o.h
          /\ ret' = [count |-> o.count]
          /\ calls' = o.calls
          /\ args' = [items |-> Elems(heap, source), predicate |-> predicate]
    /\ op' = "Count"
    /\ pc' = "done"
    /\ mutations' = 0
    /\ UNCHANGED source

CallFilterMap ==
    /\ pc = "idle"
    /\ HoldsNoSlice
    /\ \E m \in Maps, hdr \in {SrcMap, NilMap}, filteringFunc \in FilteringFuncs :
          /\ hdr = NilMap => m = <<>>
          /\ \E order \in KeyOrders(m) :
                LET o == FilterMap([heap EXCEPT !["msrc"] = m], hdr, filteringFunc, order) IN
                /\ heap' = o.h
                /\ ret' = [result |-> o.result]
                /\ calls' = o.calls
                /\ args' = [source |-> hdr, items |-> m, filteringFunc |-> filteringFunc]
    /\ op' = "FilterMap"
    /\ pc' = "done"
    /\ mutations' = 0
    /\ UNCHANGED source

CallCloneList ==
    /\ pc = "idle"
    /\ LET o == CloneList(heap, source) IN
          /\ heap' = o.h
          /\ ret' = [clone |-> o.clone]
    /\ calls' = <<>>
    /\ args' = [items |-> Elems(heap, source)]
    /\ op' = "CloneList"
    /\ pc' = "done"
    /\ mutations' = 0
    /\ UNCHANGED source

CallCloneMap ==
    /\ pc = "idle"
    /\ HoldsNoSlice
    /\ \E m \in Maps, hdr \in {SrcMap, NilMap} :
          /\ hdr = NilMap => m = <<>>
          /\ \E order \in KeyOrders(m) :
                LET o == CloneMap([heap EXCEPT !["msrc"] = m], hdr, order) IN
                /\ heap' = o.h
                /\ ret' = [clone |-> o.clone]
                /\ args' = [source |-> hdr, items |-> m]
    /\ calls' = <<>>
    /\ op' = "CloneMap"
    /\ pc' = "done"
    /\ mutations' = 0
    /\ UNCHANGED source

\* What the caller writes is a value that occurs in no container yet, so that
\* every write shows.
FreshElem == MaxElem + 1
FreshVal == MaxVal + 1

MayMutate(name) ==
    /\ pc \in {"done", "mutated"}
    /\ op = name
    /\ mutations < MaxMutations

\* clone[i] = v, after clone := CloneList(source)
WriteCloneList ==
    /\ MayMutate("CloneList")
    /\ ~IsNil(ret.clone)
    /\ \E i \in 1..Len(Elems(heap, ret.clone)) :
          heap' = [heap EXCEPT ![ret.clone.arr][i] = FreshElem]
    /\ pc' = "mutated"
    /\ mutations' = mutations + 1
    /\ UNCHANGED <<source, op, args, ret, calls>>

\* source[i] = v, after clone := CloneList(source)
WriteSourceList ==
    /\ MayMutate("CloneList")
    /\ ~IsNil(source)
    /\ \E i \in 1..Len(Elems(heap, source)) :
          heap' = [heap EXCEPT ![source.arr][i] = FreshElem]
    /\ pc' = "mutated"
    /\ mutations' = mutations + 1
    /\ UNCHANGED <<source, op, args, ret, calls>>

\* clone[k] = v (an insert or an overwrite) or delete(clone, k), after
\* clone := CloneMap(source)
MutateCloneMap ==
    /\ MayMutate("CloneMap")
    /\ ~IsNil(ret.clone)
    /\ \E k \in Elem :
          \/ heap' = [heap EXCEPT ![ret.clone.arr] = Put(@, k, FreshVal)]
          \/ /\ k \in DOMAIN Entries(heap, ret.clone)
             /\ heap' = [heap EXCEPT ![ret.clone.arr] = Delete(@, k)]
    /\ pc' = "mutated"
    /\ mutations' = mutations + 1
    /\ UNCHANGED <<source, op, args, ret, calls>>

\* source[k] = v or delete(source, k), after clone := CloneMap(source); a nil
\* map cannot be written to.
MutateSourceMap ==
    /\ MayMutate("CloneMap")
    /\ ~IsNil(args.source)
    /\ \E k \in Elem :
          \/ heap' = [heap EXCEPT ![args.source.arr] = Put(@, k, FreshVal)]
          \/ /\ k \in DOMAIN Entries(heap, args.source)
             /\ heap' = [heap EXCEPT ![args.source.arr] = Delete(@, k)]
    /\ pc' = "mutated"
    /\ mutations' = mutations + 1
    /\ UNCHANGED <<source, op, args, ret, calls>>

CallCompose ==
    /\ pc = "idle"
    /\ HoldsNoSlice
    /\ \E f \in Funcs, g \in Funcs, x \in Val :
          LET o == ApplyComposed(Compose(f, g), x) IN
          /\ ret' = [value |-> o.value]
          /\ calls' = o.calls
          /\ args' = [f |-> f, g |-> g, x |-> x]
    /\ op' = "Compose"
    /\ pc' = "done"
    /\ mutations' = 0
    /\ UNCHANGED <<heap, source>>

CallPipe ==
    /\ pc = "idle"
    /\ HoldsNoSlice
    /\ \E g \in Funcs, f \in Funcs, x \in Val :
          LET o == ApplyComposed(Pipe(g, f), x) IN
          /\ ret' = [value |-> o.value]
          /\ calls' = o.calls
          /\ args' = [f |-> f, g |-> g, x |-> x]
    /\ op' = "Pipe"
    /\ pc' = "done"
    /\ mutations' = 0
    /\ UNCHANGED <<heap, source>>

CallChain ==
    /\ pc = "idle"
    /\ HoldsNoSlice
    /\ \E value \in Val, functions \in SeqsUpTo(Funcs, MaxFuncs) :
          LET o == Chain(value, functions) IN
          /\ ret' = [value |-> o.value]
          /\ calls' = o.calls
          /\ args' = [value |-> value, functions |-> functions]
    /\ op' = "Chain"
    /\ pc' = "done"
    /\ mutations' = 0
    /\ UNCHANGED <<heap, source>>

\* The caller drops the results of the call; its own slice stays as the call left it.
Return ==
    /\ pc = "done"
    /\ pc' = "idle"
    /\ mutations' = 0
    /\ op' = "none"
    /\ args' = NoArgs
    /\ ret' = NoRet
    /\ calls' = <<>>
    /\ heap' = [EmptyHeap EXCEPT !["src"] = heap["src"]]
    /\ UNCHANGED source

\* The caller that has written to a container is finished with all of them.
Discard ==
    /\ pc = "mutated"
    /\ pc' = "idle"
    /\ mutations' = 0
    /\ op' = "none"
    /\ args' = NoArgs
    /\ ret' = NoRet
    /\ calls' = <<>>
    /\ heap' = EmptyHeap
    /\ source' = NilSlice

Next ==
    \/ CallMap
    \/ CallForEachWithError
    \/ CallMapReturnWithError
    \/ CallReduce
    \/ CallFilter
    \/ CallMax
    \/ CallMin
    \/ CallMaxBy
    \/ CallMinBy
    \/ CallPartition
    \/ CallSort
    \/ CallDistinctFunc
    \/ CallDistinct
    \/ CallFlatMap
    \/ CallForEach
    \/ CallExists
    \/ CallCount
    \/ CallFilterMap
    \/ CallCloneList
    \/ CallCloneMap
    \/ WriteCloneList
    \/ WriteSourceList
    \/ MutateCloneMap
    \/ MutateSourceMap
    \/ CallCompose
    \/ CallPipe
    \/ CallChain
    \/ Return
    \/ Discard

Spec == Init /\ [][Next]_vars

---------------------------------------------------------------------------
\* The elements of the caller's slice
Items == Elems(heap, source)

Returned(name) == pc = "done" /\ op = name

\* The smallest member of a non-empty set of indices
FirstIndex(S) == CHOOSE k \in S : \A j \in S : k <= j

---------------------------------------------------------------------------
\* C1: when the mapping callback of MapReturnWithError fails on some element
\* and k is the smallest zero-based index of such an element, the callback was
\* invoked on the elements at indices 0..k in order and on nothing after k,
\* the returned slice is nil, and the error's text is exactly
\* "error mapping at index:'k', error: " followed by the callback's error text.
MapFailing == {k \in 0..(Len(args.items) - 1) : ~args.mappingFunc[args.items[k + 1]].err.isNil}

C1_MapReturnWithErrorFailure ==
    (Returned("MapReturnWithError") /\ MapFailing # {}) =>
        LET k == FirstIndex(MapFailing) IN
        /\ calls = SubSeq(args.items, 1, k + 1)
        /\ IsNil(ret.result)
        /\ ~ret.err.isNil
        /\ ret.err.msg = "error mapping at index:'" \o ToString(k) \o "', error: "
                             \o args.mappingFunc[args.items[k + 1]].err.msg
        /\ (args.items = <<1, 2, 3>> /\ MapFailing = {2}
              /\ args.mappingFunc[3].err = ErrorsNew("fake error for 3")
              => ret.err.msg = "error mapping at index:'2', error: fake error for 3")

\* A call that failed at index 1 of a three-element slice whose last element
\* would have failed too.
C1_Witness ==
    /\ Returned("MapReturnWithError")
    /\ Len(args.items) = 3
    /\ MapFailing = {1, 2}
    /\ IsNil(ret.result)
    /\ Len(calls) = 2

\* C2: ForEachWithError invokes the action on the elements in index order; at
\* the first failing index k it stops and returns exactly the error the action
\* returned for element k; when nothing fails every element is visited once
\* and nil is returned.
ForEachFailing == {k \in 0..(Len(args.items) - 1) : ~args.action[args.items[k + 1]].isNil}

C2_ForEachWithErrorHalts ==
    Returned("ForEachWithError") =>
        IF ForEachFailing # {}
        THEN LET k == FirstIndex(ForEachFailing) IN
             /\ calls = SubSeq(args.items, 1, k + 1)
             /\ ret.err = args.action[args.items[k + 1]]
        ELSE /\ calls = args.items
             /\ ret.err.isNil

\* A call that stopped at index 0 although a later element fails with another error.
C2_Witness ==
    /\ Returned("ForEachWithError")
    /\ Len(args.items) = 3
    /\ ForEachFailing = {0, 2}
    /\ args.action[args.items[1]] # args.action[args.items[3]]
    /\ Len(calls) = 1
    /\ ret.err = args.action[args.items[1]]

\* C6: Map returns one output per input, in order: the result has the length
\* of the source and its element i is the transform of the source's element i.
C6_MapElementwise ==
    Returned("Map") =>
        LET result == Elems(heap, ret.result) IN
        /\ Len(result) = Len(args.items)
        /\ \A i \in 1..Len(args.items) : result[i] = args.transform[args.items[i]]

\* A Map over three elements with a transform that is not constant.
C6_Witness ==
    /\ Returned("Map")
    /\ Len(args.items) = 3
    /\ \E i, j \in 1..3 : args.transform[args.items[i]] # args.transform[args.items[j]]
    /\ Len(Elems(heap, ret.result)) = 3

\* The number of positions of a sequence that hold x
Occurrences(seq, x) == Cardinality({i \in 1..Len(seq) : seq[i] = x})

\* C3: DistinctFunc deduplicates by the supplied equality: for an equivalence
\* equal, no two positions of the result hold elements that equal reports as
\* equal, and the result is the first-seen element of each class, in
\* first-seen order.
IsEquivalence(equal) ==
    /\ \A x \in Elem : equal[<<x, x>>]
    /\ \A x, y \in Elem : equal[<<x, y>>] => equal[<<y, x>>]
    /\ \A x, y, z \in Elem : equal[<<x, y>>] /\ equal[<<y, z>>] => equal[<<x, z>>]

\* The positions of a sequence whose element is equal to no earlier element
FirstOfClass(seq, equal) ==
    {i \in 1..Len(seq) : \A j \in 1..(i - 1) : ~equal[<<seq[j], seq[i]>>]}

C3_DistinctFuncUsesEqual ==
    (Returned("DistinctFunc") /\ IsEquivalence(args.compareFunc)) =>
        LET unique == Elems(heap, ret.unique)
            equal == args.compareFunc
            Kept(x) == \E i \in FirstOfClass(args.items, equal) : args.items[i] = x
        IN /\ \A i, j \in 1..Len(unique) : i # j => ~equal[<<unique[i], unique[j]>>]
           /\ Len(unique) = Cardinality(FirstOfClass(args.items, equal))
           /\ \A i \in 1..Len(unique) :
                 \E k \in FirstOfClass(args.items, equal) :
                    /\ unique[i] = args.items[k]
                    /\ Cardinality({m \in FirstOfClass(args.items, equal) : m <= k}) = i

\* C4: Sort leaves the list a permutation of its original contents with no
\* pair of positions i < j such that less(j, i); it reorders the caller's
\* array in place and returns the caller's slice itself.  With a two-key less
\* the result is ordered by the first key and, on equal first keys, by the
\* second.
C4_SortInPlace ==
    Returned("Sort") =>
        LET list == Items
            n == Len(list)
        IN /\ n = Len(args.items)
           /\ \A x \in Elem : Occurrences(list, x) = Occurrences(args.items, x)
           /\ \A i, j \in 0..(n - 1) : i < j => ~Less(args.less, list, j, i)
           /\ ret.result = source
           /\ Elems(heap, ret.result) = list
           /\ args.less.kind = "byKeyThenElem" =>
                 \A i \in 1..(n - 1) :
                    \/ args.less.key[list[i]] < args.less.key[list[i + 1]]
                    \/ /\ args.less.key[list[i]] = args.less.key[list[i + 1]]
                       /\ list[i] <= list[i + 1]

\* A two-key sort of three different elements, two of them with the same first
\* key, that had to move every element.
C4_Witness ==
    /\ Returned("Sort")
    /\ args.less.kind = "byKeyThenElem"
    /\ Len(args.items) = 3
    /\ \A i \in 1..3 : args.items[i] # Items[i]
    /\ args.less.key[Items[1]] = args.less.key[Items[2]]
    /\ Items[1] < Items[2]
    /\ args.less.key[Items[2]] < args.less.key[Items[3]]

\* C5: Partition returns (T, F) with T exactly the subsequence of the elements
\* satisfying the predicate and F exactly the subsequence of the others, each
\* in the original order; len(T) + len(F) = len(s), every value keeps its
\* multiplicity, and both are non-nil even when empty.
C5_PartitionSplits ==
    Returned("Partition") =>
        LET T == Elems(heap, ret.trueSlice)
            F == Elems(heap, ret.falseSlice)
            Sat(x) == args.predicate[x]
            Unsat(x) == ~args.predicate[x]
        IN /\ T = SelectSeq(args.items, Sat)
           /\ F = SelectSeq(args.items, Unsat)
           /\ Len(T) + Len(F) = Len(args.items)
           /\ \A x \in Elem :
                 Occurrences(T, x) + Occurrences(F, x) = Occurrences(args.items, x)
           /\ ~IsNil(ret.trueSlice)
           /\ ~IsNil(ret.falseSlice)
           /\ ret.trueSlice # ret.falseSlice

\* A partition of three elements with both buckets populated.
C5_Witness ==
    /\ Returned("Partition")
    /\ Len(args.items) = 3
    /\ Len(Elems(heap, ret.trueSlice)) = 2
    /\ Len(Elems(heap, ret.falseSlice)) = 1
    /\ args.predicate[args.items[1]] /\ ~args.predicate[args.items[2]]

\* C7: Filter returns exactly the subsequence of the elements satisfying the
\* predicate: every element of the result satisfies it, every satisfying
\* element of the source is kept with its multiplicity, and order is kept.
C7_FilterSubsequence ==
    Returned("Filter") =>
        LET result == Elems(heap, ret.result)
            Sat(x) == args.filterFunc[x]
        IN /\ result = SelectSeq(args.items, Sat)
           /\ \A i \in 1..Len(result) : args.filterFunc[result[i]]
           /\ \A x \in Elem :
                 args.filterFunc[x] => Occurrences(result, x) = Occurrences(args.items, x)

\* A filter that drops the first element and keeps a duplicated one twice.
C7_Witness ==
    /\ Returned("Filter")
    /\ Len(args.items) = 3
    /\ ~args.filterFunc[args.items[1]]
    /\ args.items[2] = args.items[3]
    /\ Elems(heap, ret.result) = <<args.items[2], args.items[3]>>

\* C8: Reduce is a left fold: the callback is invoked once per element in
\* index order, first with the initial value and then with its own previous
\* result, and the last result is returned; an empty source returns the
\* initial value without any invocation.  With digit concatenation from 0 the
\* result reads the elements left to right.
C8_ReduceLeftFold ==
    Returned("Reduce") =>
        LET n == Len(args.items)
            Out(i) == ApplyReduceFunc(args.reduceFunc, calls[i][1], calls[i][2])
        IN /\ Len(calls) = n
           /\ \A i \in 1..n :
                 /\ calls[i][2] = args.items[i]
                 /\ calls[i][1] = IF i = 1 THEN args.initialValue ELSE Out(i - 1)
           /\ ret.acc = IF n = 0 THEN args.initialValue ELSE Out(n)
           /\ (args.reduceFunc = "concat" /\ args.initialValue = 0 =>
                 \A i \in 1..n : (ret.acc \div 10 ^ (n - i)) % 10 = args.items[i])

\* A concatenation of three elements that are not all the same.
C8_Witness ==
    /\ Returned("Reduce")
    /\ args.reduceFunc = "concat"
    /\ args.initialValue = 0
    /\ args.items = <<3, 1, 2>>
    /\ ret.acc = 312

\* C9: Max and Min return (zero value, false) for an empty slice; for a
\* non-empty one they return found = true and an element of the slice that is
\* >= (resp. <=) every element.
C9_MaxMinExtreme ==
    /\ Returned("Max") =>
          IF Len(args.items) = 0 THEN ret.max = 0 /\ ~ret.found
          ELSE /\ ret.found
               /\ \E i \in 1..Len(args.items) : args.items[i] = ret.max
               /\ \A i \in 1..Len(args.items) : ret.max >= args.items[i]
    /\ Returned("Min") =>
          IF Len(args.items) = 0 THEN ret.min = 0 /\ ~ret.found
          ELSE /\ ret.found
               /\ \E i \in 1..Len(args.items) : args.items[i] = ret.min
               /\ \A i \in 1..Len(args.items) : ret.min <= args.items[i]

\* A Max whose answer is neither the first nor the last element.
C9_Witness ==
    /\ Returned("Max")
    /\ Len(args.items) = 3
    /\ ret.found
    /\ ret.max = args.items[2]
    /\ ret.max > args.items[1] /\ ret.max > args.items[3]

\* C10: MaxBy and MinBy return found = false and the zero value for an empty
\* slice; otherwise found = true and the element at the smallest index whose
\* key is the maximum (resp. minimum) key over the slice.
ArgMax == {i \in 1..Len(args.items) :
             \A j \in 1..Len(args.items) :
                args.getter[args.items[i]] >= args.getter[args.items[j]]}
ArgMin == {i \in 1..Len(args.items) :
             \A j \in 1..Len(args.items) :
                args.getter[args.items[i]] <= args.getter[args.items[j]]}

C10_MaxByMinByFirstWins ==
    /\ Returned("MaxBy") =>
          IF Len(args.items) = 0 THEN ret.max = 0 /\ ~ret.found
          ELSE /\ ret.found
               /\ ret.max = args.items[FirstIndex(ArgMax)]
               /\ (Len(args.items) = 1 => ret.max = args.items[1])
    /\ Returned("MinBy") =>
          IF Len(args.items) = 0 THEN ret.min = 0 /\ ~ret.found
          ELSE /\ ret.found
               /\ ret.min = args.items[FirstIndex(ArgMin)]
               /\ (Len(args.items) = 1 => ret.min = args.items[1])

\* A MaxBy where two different elements tie on the maximum key and the earlier
\* one, which is not at index 0, is returned.
C10_Witness ==
    /\ Returned("MaxBy")
    /\ Len(args.items) = 3
    /\ ArgMax = {2, 3}
    /\ args.items[2] # args.items[3]
    /\ ret.found
    /\ ret.max = args.items[2]

\* C11: Distinct returns a sequence with no two equal elements, holding
\* exactly the values that occur in the slice, ordered by the position of each
\* value's first occurrence; a slice without duplicates comes back element for
\* element.
FirstOccurrence(seq, x) == FirstIndex({i \in 1..Len(seq) : seq[i] = x})

HasDuplicates(seq) == \E i, j \in 1..Len(seq) : i # j /\ seq[i] = seq[j]

C11_DistinctFirstSeen ==
    Returned("Distinct") =>
        LET unique == Elems(heap, ret.unique) IN
        /\ ~HasDuplicates(unique)
        /\ {unique[i] : i \in 1..Len(unique)} = {args.items[i] : i \in 1..Len(args.items)}
        /\ \A i, j \in 1..Len(unique) :
              i < j => FirstOccurrence(args.items, unique[i])
                          < FirstOccurrence(args.items, unique[j])
        /\ (~HasDuplicates(args.items) => unique = args.items)

\* A slice whose first value comes back, not adjacent, after another value.
C11_Witness ==
    /\ Returned("Distinct")
    /\ Len(args.items) = 3
    /\ args.items[1] = args.items[3]
    /\ args.items[1] # args.items[2]
    /\ Elems(heap, ret.unique) = <<args.items[1], args.items[2]>>

\* C20: FlatMap returns the inner slices' elements concatenated in outer
\* order, each inner slice in its own order: the length is the sum of the
\* inner lengths, and empty or nil inner slices contribute nothing.
RECURSIVE Offset(_, _)
Offset(nested, i) == IF i <= 1 THEN 0 ELSE Offset(nested, i - 1) + Len(nested[i - 1].elems)

C20_FlatMapConcatenates ==
    Returned("FlatMap") =>
        LET result == Elems(heap, ret.result)
            n == Len(args.items)
        IN /\ Len(result) = Offset(args.items, n + 1)
           /\ \A i \in 1..n : \A j \in 1..Len(args.items[i].elems) :
                 result[Offset(args.items, i) + j] = args.items[i].elems[j]
           /\ (\A i \in 1..n : args.items[i].elems = <<>>) => result = <<>>

\* A nil inner slice between two populated ones.
C20_Witness ==
    /\ Returned("FlatMap")
    /\ Len(args.items) = 2
    /\ args.items[1] = [isNil |-> FALSE, elems |-> <<2, 1>>]
    /\ args.items[2] = [isNil |-> FALSE, elems |-> <<1>>]
    /\ Elems(heap, ret.result) = <<2, 1, 1>>

\* An outer slice holding only a nil and an empty inner slice.
C20_WitnessEmpty ==
    /\ Returned("FlatMap")
    /\ Len(args.items) = 2
    /\ args.items[1].isNil /\ ~args.items[2].isNil
    /\ args.items[2].elems = <<>>
    /\ Elems(heap, ret.result) = <<>>

\* C17: Exists returns true exactly when some element satisfies the
\* condition (false for an empty slice), and it short-circuits: the condition
\* is invoked on the elements in index order and on nothing after the first
\* element that satisfies it.
Satisfying == {k \in 0..(Len(args.items) - 1) : args.condition[args.items[k + 1]]}

C17_ExistsShortCircuits ==
    Returned("Exists") =>
        /\ ret.found <=> Satisfying # {}
        /\ Len(args.items) = 0 => ~ret.found
        /\ calls = IF Satisfying # {}
                   THEN SubSeq(args.items, 1, FirstIndex(Satisfying) + 1)
                   ELSE args.items

\* A match at index 1 of three elements, the last of which matches as well.
C17_Witness ==
    /\ Returned("Exists")
    /\ Len(args.items) = 3
    /\ Satisfying = {1, 2}
    /\ ret.found
    /\ Len(calls) = 2

\* C15: when the mapping callback fails on no element, MapReturnWithError
\* returns no error and the complete transformed slice: element i is the value
\* the callback returned for element i of the source, which is what Map
\* returns for the value part of the callback.
C15_MapReturnWithErrorSuccess ==
    (Returned("MapReturnWithError") /\ MapFailing = {}) =>
        LET result == Elems(heap, ret.result)
            g == [x \in Elem |-> args.mappingFunc[x].res]
            m == Map(heap, source, g)
        IN /\ ret.err.isNil
           /\ ~IsNil(ret.result)
           /\ Len(result) = Len(args.items)
           /\ \A i \in 1..Len(args.items) : result[i] = args.mappingFunc[args.items[i]].res
           /\ result = Elems(m.h, m.result)
           /\ calls = args.items

\* A successful call on three elements whose values are not all the same,
\* with a callback that would fail on an element that is not in the slice.
C15_Witness ==
    /\ Returned("MapReturnWithError")
    /\ Len(args.items) = 3
    /\ MapFailing = {}
    /\ \E x \in Elem : ~args.mappingFunc[x].err.isNil
    /\ \E i, j \in 1..3 : Elems(heap, ret.result)[i] # Elems(heap, ret.result)[j]
    /\ ret.err.isNil

\* C16: FilterMap returns a new map whose keys are exactly the keys k of the
\* source with filteringFunc(k, source[k]) true, each with the source's value;
\* no key absent from the source appears, and a callback that is always false
\* yields an empty map.
C16_FilterMapExact ==
    Returned("FilterMap") =>
        LET result == Entries(heap, ret.result)
            m == args.items
            Keep(k) == args.filteringFunc[<<k, m[k]>>]
        IN /\ DOMAIN result = {k \in DOMAIN m : Keep(k)}
           /\ \A k \in DOMAIN result : result[k] = m[k]
           /\ DOMAIN result \subseteq DOMAIN m
           /\ ((\A kv \in Elem \X Val : ~args.filteringFunc[kv]) => DOMAIN result = {})
           /\ ret.result # args.source

\* A three-key map filtered on its values down to two keys.
C16_Witness ==
    /\ Returned("FilterMap")
    /\ DOMAIN args.items = {1, 2, 3}
    /\ args.items[1] = args.items[3] /\ args.items[1] # args.items[2]
    /\ DOMAIN Entries(heap, ret.result) = {1, 3}

\* A populated map filtered by a callback that is always false.
C16_WitnessNone ==
    /\ Returned("FilterMap")
    /\ Cardinality(DOMAIN args.items) = 2
    /\ \A kv \in Elem \X Val : ~args.filteringFunc[kv]
    /\ DOMAIN Entries(heap, ret.result) = {}

\* C14: CloneList and CloneMap return a container equal to the source (same
\* elements in the same order; same key/value pairs), and the two are
\* independent: a write by the caller to the clone (an element overwrite; a map
\* insert, overwrite or delete) leaves the source as it was, and a write to the
\* source leaves the clone as it was.
C14_CloneEqual ==
    /\ Returned("CloneList") =>
          /\ Elems(heap, ret.clone) = args.items
          /\ Items = args.items
    /\ Returned("CloneMap") =>
          /\ Entries(heap, ret.clone) = args.items
          /\ Entries(heap, args.source) = args.items

C14_WriteIsLocal ==
    /\ WriteCloneList => Elems(heap, source)' = Elems(heap, source)
    /\ WriteSourceList => Elems(heap, ret.clone)' = Elems(heap, ret.clone)
    /\ MutateCloneMap => Entries(heap, args.source)' = Entries(heap, args.source)
    /\ MutateSourceMap => Entries(heap, ret.clone)' = Entries(heap, ret.clone)

C14_CloneIndependent == [](C14_CloneEqual) /\ [][C14_WriteIsLocal]_vars

\* A cloned list and its source after one write to each, at different indices:
\* each still holds the original element where the other was written.
C14_Witness ==
    /\ pc = "mutated"
    /\ op = "CloneList"
    /\ Len(args.items) = 3
    /\ Elems(heap, ret.clone)[1] = FreshElem
    /\ Items[1] = args.items[1]
    /\ Items[2] = FreshElem
    /\ Elems(heap, ret.clone)[2] = args.items[2]

\* A cloned map after a delete and an insert on the clone and none on the
\* source.
C14_WitnessMap ==
    /\ pc = "mutated"
    /\ op = "CloneMap"
    /\ DOMAIN args.items = {1, 2}
    /\ DOMAIN Entries(heap, ret.clone) = {2, 3}
    /\ Entries(heap, args.source) = args.items

\* C18: the functions returned by Compose(f, g) and Pipe(g, f) behave alike:
\* called with x, each evaluates g on x once, then f on g's result, and
\* returns f(g(x)).
C18_ComposePipeAlike ==
    (Returned("Compose") \/ Returned("Pipe")) =>
        /\ ret.value = args.f[args.g[args.x]]
        /\ calls = << <<"g", args.x>>, <<"f", args.g[args.x]>> >>

\* A function returned by Pipe called where the order of f and g matters.
C18_Witness ==
    /\ Returned("Pipe")
    /\ args.f[args.g[args.x]] # args.g[args.f[args.x]]
    /\ ret.value = args.f[args.g[args.x]]

\* The same for a function returned by Compose.
C18_WitnessCompose ==
    /\ Returned("Compose")
    /\ args.f[args.g[args.x]] # args.g[args.f[args.x]]
    /\ ret.value = args.f[args.g[args.x]]

\* C19: Chain applies the functions in the given order, each exactly once, the
\* first to the value and every other to the result of the one before it, and
\* returns the last result; without functions it returns the value.  With two
\* functions f, g the result is g(f(value)).
C19_ChainThreads ==
    Returned("Chain") =>
        LET n == Len(args.functions)
            Out(i) == args.functions[i][calls[i][2]]
        IN /\ Len(calls) = n
           /\ \A i \in 1..n :
                 /\ calls[i][1] = i - 1
                 /\ calls[i][2] = IF i = 1 THEN args.value ELSE Out(i - 1)
           /\ ret.value = IF n = 0 THEN args.value ELSE Out(n)
           /\ n = 2 => ret.value = args.functions[2][args.functions[1][args.value]]

\* Two functions whose order matters for the value given.
C19_Witness ==
    /\ Returned("Chain")
    /\ Len(args.functions) = 2
    /\ args.functions[2][args.functions[1][args.value]]
          # args.functions[1][args.functions[2][args.value]]
    /\ ret.value # args.functions[2][args.value]
    /\ ret.value = args.functions[2][args.functions[1][args.value]]

\* The operations that return a container they construct.
Constructing ==
    {"Map", "Filter", "FlatMap", "Distinct", "DistinctFunc", "Partition",
     "CloneList", "FilterMap", "CloneMap", "MapReturnWithError"}

\* The containers the last call returned, as the sequences or maps they denote,
\* and whether any of them is nil.
ReturnedContainers ==
    CASE op \in {"Map", "Filter", "FlatMap", "MapReturnWithError"} ->
            [nil |-> IsNil(ret.result), holds |-> {Elems(heap, ret.result)}]
      [] op \in {"Distinct", "DistinctFunc"} ->
            [nil |-> IsNil(ret.unique), holds |-> {Elems(heap, ret.unique)}]
      [] op = "Partition" ->
            [nil |-> IsNil(ret.trueSlice) \/ IsNil(ret.falseSlice),
             holds |-> {Elems(heap, ret.trueSlice), Elems(heap, ret.falseSlice)}]
      [] op = "CloneList" ->
            [nil |-> IsNil(ret.clone), holds |-> {Elems(heap, ret.clone)}]
      [] op = "FilterMap" ->
            [nil |-> ret.result = NilMap, holds |-> {Entries(heap, ret.result)}]
      [] op = "CloneMap" ->
            [nil |-> ret.clone = NilMap, holds |-> {Entries(heap, ret.clone)}]

\* C12: called with an empty or a nil container, every operation that returns
\* a container it constructs (Map, Filter, FlatMap, Distinct, DistinctFunc,
\* Partition twice, CloneList, FilterMap, CloneMap, and MapReturnWithError,
\* which then has no failing element and returns a nil error) returns a
\* container that is empty and not nil.
C12_EmptyNotNil ==
    (pc = "done" /\ op \in Constructing /\ DOMAIN args.items = {}) =>
        /\ ~ReturnedContainers.nil
        /\ \A c \in ReturnedContainers.holds : DOMAIN c = {}
        /\ op = "MapReturnWithError" => ret.err = NilError

\* CloneMap has returned for a nil map.
C12_Witness ==
    /\ Returned("CloneMap")
    /\ args.source = NilMap
    /\ ret.clone # NilMap
    /\ DOMAIN Entries(heap, ret.clone) = {}

\* Each of the operations has returned for a nil and for a non-nil empty slice
\* or map.
C12_WitnessNilSlice ==
    /\ Returned("MapReturnWithError")
    /\ IsNil(source)
    /\ ~IsNil(ret.result)

C12_WitnessEmptySlice ==
    /\ Returned("Partition")
    /\ ~IsNil(source)
    /\ Items = <<>>
    /\ ~IsNil(ret.trueSlice)
    /\ ~IsNil(ret.falseSlice)

C12_WitnessEmptyMap ==
    /\ Returned("FilterMap")
    /\ args.source = SrcMap
    /\ DOMAIN args.items = {}
    /\ ret.result # NilMap

\* The operations that take a slice the caller holds, a slice of slices, a map.
OnSlice ==
    {"Map", "Filter", "Reduce", "Distinct", "DistinctFunc", "Partition", "Count",
     "Exists", "Max", "Min", "MaxBy", "MinBy", "CloneList", "MapReturnWithError",
     "ForEachWithError", "ForEach"}

OnNested == {"FlatMap"}

OnMap == {"FilterMap", "CloneMap"}

\* C13: after a call of any operation other than Sort (Map, Filter, FlatMap,
\* Reduce, Distinct, DistinctFunc, Partition, Count, Exists, Max, Min, MaxBy,
\* MinBy, FilterMap, CloneMap, CloneList, MapReturnWithError,
\* ForEachWithError, and ForEach whose callback assigns to its own parameter)
\* the container passed holds the elements it held before the call, in the
\* same order.
C13_InputUnmodified ==
    pc = "done" =>
        /\ op \in OnSlice => Elems(heap, source) = args.items
        /\ op \in OnNested => Elems(heap, args.source) = args.items
        /\ op \in OnMap => Entries(heap, args.source) = args.items

\* ForEach has returned from a callback that assigned another value to its
\* parameter for each of three elements.
C13_Witness ==
    /\ Returned("ForEach")
    /\ Len(args.items) = MaxLen
    /\ \A i \in 1..MaxLen : args.action[args.items[i]] # args.items[i]
    /\ calls = args.items
    /\ Items = args.items

\* Sort has returned and the caller's slice is in another order than before.
C13_WitnessSort ==
    /\ Returned("Sort")
    /\ Items # args.items

C21_WitnessNone ==
    /\ Returned("DistinctFunc")
    /\ \A pair \in Elem \X Elem : ~args.compareFunc[pair]
    /\ HasDuplicates(args.items)
    /\ Len(Elems(heap, ret.unique)) < Len(args.items)

\* The predicate the last call of Count, Filter, Partition or Exists was given.
LastPredicate ==
    CASE op = "Filter" -> args.filterFunc
      [] op = "Exists" -> args.condition
      [] OTHER -> args.predicate

\* C22: for the slice and the predicate of a call of Count, Filter, Partition
\* or Exists, the four operations agree: Count returns the number of positions
\* whose element satisfies the predicate, which is the length of Filter's
\* result and of Partition's first result; Partition's first result is
\* Filter's result; Exists returns true exactly when Count returns more than
\* zero.  The value the call returned is the one compared.
C22_CountFilterPartitionExistsAgree ==
    (pc = "done" /\ op \in {"Count", "Filter", "Partition", "Exists"}) =>
        LET p == LastPredicate
            count == Count(heap, source, p).count
            f == Filter(heap, source, p)
            filtered == Elems(f.h, f.result)
            pt == Partition(heap, source, p)
            trueSlice == Elems(pt.h, pt.trueSlice)
            found == Exists(heap, source, p).found
        IN /\ op = "Count" => ret.count = count
           /\ op = "Filter" => Elems(heap, ret.result) = filtered
           /\ op = "Partition" => Elems(heap, ret.trueSlice) = trueSlice
           /\ op = "Exists" => ret.found = found
           /\ count = Cardinality({i \in 1..Len(args.items) : p[args.items[i]]})
           /\ count = Len(filtered)
           /\ count = Len(trueSlice)
           /\ trueSlice = filtered
           /\ found <=> count > 0

\* Count has returned 2 for a slice of three that holds a satisfying value
\* twice and a value that does not satisfy the predicate.
C22_Witness ==
    /\ Returned("Count")
    /\ Len(args.items) = 3
    /\ ret.count = 2
    /\ \E i, j \in 1..3 :
          /\ i # j
          /\ args.items[i] = args.items[j]
          /\ args.predicate[args.items[i]]

\* Exists has returned false, and true; Filter and Partition have returned a
\* proper non-empty part of the slice.
C22_WitnessNone ==
    /\ Returned("Exists")
    /\ Len(args.items) = 3
    /\ ~ret.found

C22_WitnessFilter ==
    /\ Returned("Filter")
    /\ Len(Elems(heap, ret.result)) \in 1..(Len(args.items) - 1)

C22_WitnessPartition ==
    /\ Returned("Partition")
    /\ Len(Elems(heap, ret.trueSlice)) \in 1..(Len(args.items) - 1)

=============================================================================
